---- MODULE Spec2Model ----
(***************************************************************************)
(* TLS hot-reload agent: certificate store (tlsstore.Store), reload agent  *)
(* (agent.Run / reloadCert) and the shutdown sequence of main().           *)
(*                                                                         *)
(* Time is a discrete clock in seconds.  The agent goroutine dequeues a    *)
(* watcher event at the instant it is delivered (the clock does not move   *)
(* while an event is waiting in front of a selecting agent), so the time   *)
(* an event arrives and the time.Now() read by its handler coincide.       *)
(* The 60 s ticker and the context deadlines of main are not put on the    *)
(* clock: a tick or a deadline may fire at any moment it is armed.         *)
(***************************************************************************)
EXTENDS Integers, Sequences, FiniteSets, TLC

\* ---------------------------------------------------------------- bounds
MaxTime == 4        \* the clock runs from 0 to MaxTime seconds
NumPairs == 2       \* distinct valid certificate/key pairs that can be on disk
MaxQueue == 1       \* watcher events waiting to be received
MaxErrors == 1      \* watcher errors waiting to be received
MaxSignals == 2     \* SIGINT/SIGTERM deliveries
MaxStores == 3      \* Update calls that reach the store in the store scenario

\* ------------------------------------------------------ program constants
reloadDebounce == 2                 \* agent.go:91, seconds
tickerInterval == 60                \* agent.go:86, seconds
ExpiryWarning == 604800             \* agent.go:122, 7*24*time.Hour in seconds
SigChanCap == 1                     \* main.go:79, make(chan os.Signal, 1)

\* ------------------------------------------------------------ file system
Missing == 0                        \* the path does not exist
Malformed == -1                     \* the file holds no parsable PEM block
ValidIds == 1..NumPairs
FileContent == ValidIds \cup {Missing, Malformed}
Files == {"crt", "key"}
Ops == {"Write", "Remove"}

\* NotAfter of the leaf of pair id, in seconds on the model clock: of every
\* three ids the first is valid for a year, the second is inside the warning
\* window from the start, the third enters it at clock 2.
NotAfterOf(id) ==
    CASE id % 3 = 1 -> 31536000
      [] id % 3 = 2 -> ExpiryWarning - 1
      [] OTHER -> ExpiryWarning + 1

NoLeaf == -1                        \* tls.Certificate.Leaf == nil
NilCert == [chain |-> 0, key |-> 0, leaf |-> NoLeaf]      \* a nil *tls.Certificate
NoTime == -1                        \* the zero time.Time / "never"

VARIABLES
    featureConfig,   \* ConfigLoader.features, then the Features read by main (main.go:36)
    configFile,      \* the file FEATURES_CONFIG_PATH names, NoPath if it names none
    environ,         \* the TLS_AGENT_FEATURES_* variables of the process environment
    loaderPc,        \* position of main in its configuration loading (main.go:19-36)
    parsesLeaf,      \* whether tls.LoadX509KeyPair of the build fills Certificate.Leaf
    now,             \* wall clock, seconds
    certFile,        \* content of certs/server.crt
    keyFile,         \* content of certs/server.key
    store,           \* Store.cert, the atomic.Value
    state,           \* agent.State: Current, Previous, LastRun
    lastReloadTime,  \* local of agent.Run
    agentPc,         \* position of the agent goroutine
    watcher,         \* fsnotify watcher: "none", "open", "closed"
    watched,         \* files whose watcher.Add succeeded
    events,          \* watcher.Events
    errs,            \* number of errors waiting in watcher.Errors
    tick,            \* a tick is waiting in ticker.C (buffer of one)
    mainPc,          \* position of main
    handlerPc,       \* position of the signal goroutine
    sigChan,         \* number of signals buffered in sigChan
    agentStopChan,   \* number of close(agentStopChan) executed
    agentDone,       \* number of close(agentDone) executed
    shutdownDone,    \* number of close(shutdownDone) executed
    srv,             \* http.Server: shutdown calls and outcome
    panicked,        \* a goroutine panicked (close of a closed channel)
    warned,          \* "Warning: Agent stop timeout" was logged
    lookup,          \* result of the latest GetCertificate of the listener
    published,       \* pairs given to New or Update so far
    sigSent,         \* signals delivered to the process so far
    lastFileAttempt, \* latest file-triggered call of reloadCert: toggle, time, outcome
    lastSuccess,     \* time of the latest successful reloadCert, NoTime if none
    updPc,           \* position of each concurrent caller of Store.Update
    updIdx,          \* place in history of each caller's latest store
    history,         \* the values Update stored, in the order of the atomic stores
    returned,        \* place in history of the latest store whose Update has returned
    lookPc,          \* position of the concurrent caller of Store.GetCertificate
    running,         \* the running flag of the State that State.IsRunning reports
    lookFloor        \* value of returned when that GetCertificate call started

vars == <<featureConfig, configFile, environ, loaderPc, parsesLeaf, now, certFile, keyFile, store, state,
          lastReloadTime, agentPc, watcher, watched, events, errs, tick,
          mainPc, handlerPc, sigChan, agentStopChan, agentDone, shutdownDone,
          srv, panicked, warned, lookup, published, sigSent, lastFileAttempt,
          lastSuccess, updPc, updIdx, history, returned, lookPc, lookFloor,
          running>>

fsVars == <<certFile, keyFile>>
agentVars == <<store, state, lastReloadTime, agentPc, watcher, watched,
               published, lastFileAttempt, lastSuccess>>
queueVars == <<events, errs, tick>>
mainVars == <<mainPc, srv, warned>>
handlerVars == <<handlerPc, sigChan, sigSent>>
chanVars == <<agentStopChan, agentDone, shutdownDone, panicked>>
cfgVars == <<featureConfig, configFile, environ, loaderPc, parsesLeaf>>
callVars == <<updPc, updIdx, history, returned, lookPc, lookFloor>>

\* ------------------------------------------------------------ tlsstore
\* tls.LoadX509KeyPair: both files must parse and the key must match the leaf
Load(crt, key) ==
    IF crt \in ValidIds /\ key \in ValidIds /\ crt = key
    THEN [ok |-> TRUE,
          cert |-> [chain |-> crt, key |-> key,
                    leaf |-> IF parsesLeaf THEN NotAfterOf(crt) ELSE NoLeaf]]
    ELSE [ok |-> FALSE, cert |-> NilCert]

New(initial) == initial

GetCertificate(s) == s

\* the error GetCertificate returns with the pair: always nil (part_012:19)
NilError == "nil"
GetCertificateError(s) == NilError

Update_torn(s, cert) == [s EXCEPT !.chain = cert.chain]
Update_lost(s, cert) == s
Update(s, cert) == cert

\* ------------------------------------------------ the running flag of State
\* The flag and its methods as the tests of the agent use them
\* (agent.go:195-229): a State is running from NewState on, Stop clears the
\* flag, IsRunning reports it.
NewStateRunning == TRUE
Stop(flag) == FALSE
IsRunning(flag) == flag

\* ------------------------------------------------------------ helpers
Closed(ch) == ch >= 1

\* ------------------------------------------------------------ features
BoolFields == {"GracefulShutdown", "CertificateWatcher", "PeriodicCertCheck",
               "DebounceFileChanges", "Logging", "MetricsCollection", "HealthCheck"}
IntFields == {"ShutdownTimeout", "AgentShutdownTimeout", "CertWatchInterval",
              "DebounceInterval", "CertExpiryWarning"}
FeatureNames == BoolFields \cup IntFields

\* features.go:53-68
DefaultFeatures ==
    [GracefulShutdown |-> TRUE, CertificateWatcher |-> TRUE,
     PeriodicCertCheck |-> TRUE, DebounceFileChanges |-> TRUE,
     Logging |-> TRUE, MetricsCollection |-> FALSE, HealthCheck |-> FALSE,
     ShutdownTimeout |-> 10, AgentShutdownTimeout |-> 5,
     CertWatchInterval |-> 30, DebounceInterval |-> 2000,
     CertExpiryWarning |-> 7]

\* the zero value of the Features struct
ZeroFeatures ==
    [f \in FeatureNames |-> IF f \in BoolFields THEN FALSE ELSE 0]

\* the configurations of the two flags main branches on
MainConfigs ==
    {[DefaultFeatures EXCEPT !.GracefulShutdown = g, !.CertificateWatcher = w] :
        g \in BOOLEAN, w \in BOOLEAN}

\* FEATURES_CONFIG_PATH is empty
NoPath == [format |-> "nopath", fields |-> [k \in {} |-> FALSE]]
NoEnv == [n \in {} |-> ""]

\* the json/yaml tag of each field, features.go:15-49
TagOf ==
    [GracefulShutdown |-> "graceful_shutdown",
     CertificateWatcher |-> "certificate_watcher",
     PeriodicCertCheck |-> "periodic_cert_check",
     DebounceFileChanges |-> "debounce_file_changes",
     Logging |-> "logging", MetricsCollection |-> "metrics_collection",
     HealthCheck |-> "health_check", ShutdownTimeout |-> "shutdown_timeout",
     AgentShutdownTimeout |-> "agent_shutdown_timeout",
     CertWatchInterval |-> "cert_watch_interval",
     DebounceInterval |-> "debounce_interval",
     CertExpiryWarning |-> "cert_expiry_warning"]

\* the variable LoadFromEnv reads into each field, features.go:123-136, 259, 268
EnvNameOf ==
    [GracefulShutdown |-> "TLS_AGENT_FEATURES_GRACEFUL_SHUTDOWN",
     CertificateWatcher |-> "TLS_AGENT_FEATURES_CERTIFICATE_WATCHER",
     PeriodicCertCheck |-> "TLS_AGENT_FEATURES_PERIODIC_CERT_CHECK",
     DebounceFileChanges |-> "TLS_AGENT_FEATURES_DEBOUNCE_FILE_CHANGES",
     Logging |-> "TLS_AGENT_FEATURES_LOGGING",
     MetricsCollection |-> "TLS_AGENT_FEATURES_METRICS_COLLECTION",
     HealthCheck |-> "TLS_AGENT_FEATURES_HEALTH_CHECK",
     ShutdownTimeout |-> "TLS_AGENT_FEATURES_SHUTDOWN_TIMEOUT",
     AgentShutdownTimeout |-> "TLS_AGENT_FEATURES_AGENT_SHUTDOWN_TIMEOUT",
     CertWatchInterval |-> "TLS_AGENT_FEATURES_CERT_WATCH_INTERVAL",
     DebounceInterval |-> "TLS_AGENT_FEATURES_DEBOUNCE_INTERVAL",
     CertExpiryWarning |-> "TLS_AGENT_FEATURES_CERT_EXPIRY_WARNING"]

\* strconv.ParseBool
ParseBool(str) ==
    CASE str \in {"1", "t", "T", "TRUE", "true", "True"} -> [ok |-> TRUE, val |-> TRUE]
      [] str \in {"0", "f", "F", "FALSE", "false", "False"} -> [ok |-> TRUE, val |-> FALSE]
      [] OTHER -> [ok |-> FALSE, val |-> FALSE]

\* strconv.Atoi on the strings an environment of the model holds
Atoi(str) ==
    CASE str = "0" -> [ok |-> TRUE, val |-> 0]
      [] str = "1" -> [ok |-> TRUE, val |-> 1]
      [] str = "45" -> [ok |-> TRUE, val |-> 45]
      [] OTHER -> [ok |-> FALSE, val |-> 0]

\* features.go:258-265: the new value of *target
loadBoolEnv(env, fullEnvName, target) ==
    IF fullEnvName \in DOMAIN env /\ ParseBool(env[fullEnvName]).ok
    THEN ParseBool(env[fullEnvName]).val
    ELSE target

\* features.go:267-274: the new value of *target
loadIntEnv(env, fullEnvName, target) ==
    IF fullEnvName \in DOMAIN env /\ Atoi(env[fullEnvName]).ok
    THEN Atoi(env[fullEnvName]).val
    ELSE target

LoadFromEnv_timid(features, env) ==
    [f \in DOMAIN features |->
        IF features[f] # DefaultFeatures[f] THEN features[f]
        ELSE IF f \in BoolFields
             THEN loadBoolEnv(env, EnvNameOf[f], features[f])
             ELSE loadIntEnv(env, EnvNameOf[f], features[f])]
\* features.go:121-139: cl.features after the call
LoadFromEnv(features, env) ==
    [f \in DOMAIN features |->
        IF f \in BoolFields
        THEN loadBoolEnv(env, EnvNameOf[f], features[f])
        ELSE loadIntEnv(env, EnvNameOf[f], features[f])]

\* yaml.Unmarshal / json.Unmarshal of a well-typed document into the struct:
\* the fields the document names are overwritten, the others are kept
Unmarshal(features, fields) ==
    [f \in DOMAIN features |->
        IF TagOf[f] \in DOMAIN fields THEN fields[TagOf[f]] ELSE features[f]]

\* features.go:142-158; format "yaml" is a file the YAML parser accepts
LoadFromYAML(features, file) ==
    IF file.format = "yaml"
    THEN [ok |-> TRUE, features |-> Unmarshal(features, file.fields)]
    ELSE [ok |-> FALSE, features |-> features]

\* features.go:161-177; format "json" is a file only the JSON parser accepts
LoadFromJSON(features, file) ==
    IF file.format = "json"
    THEN [ok |-> TRUE, features |-> Unmarshal(features, file.fields)]
    ELSE [ok |-> FALSE, features |-> features]

\* features.go:180-182
Get(features) == features

\* the process is gone after log.Fatal, the default action of an unhandled
\* signal, a panic, or the return of main
procAlive == mainPc \notin {"fatal", "killed", "complete"} /\ ~panicked

TypeOK ==
    /\ DOMAIN featureConfig = FeatureNames
    /\ \A f \in BoolFields : featureConfig[f] \in BOOLEAN
    /\ \A f \in IntFields : featureConfig[f] \in Int
    /\ loaderPc \in {"new", "file", "env", "get", "done"}
    /\ parsesLeaf \in BOOLEAN
    /\ now \in 0..MaxTime
    /\ certFile \in FileContent /\ keyFile \in FileContent
    /\ agentPc \in {"idle", "start", "select", "returned", "done"}
    /\ watcher \in {"none", "open", "closed"}
    /\ watched \subseteq Files
    /\ Len(events) <= MaxQueue
    /\ errs \in 0..MaxErrors
    /\ tick \in BOOLEAN
    /\ mainPc \in {"start", "fatal", "listen", "waitShutdown", "waitAgent",
                   "complete", "killed"}
    /\ handlerPc \in {"idle", "start", "waitSig", "shutdown", "inShutdown", "done"}
    /\ sigChan \in 0..SigChanCap
    /\ sigSent \in 0..MaxSignals

\* everything but the configuration and the files, before main has run
InitProgram ==
    /\ now = 0
    /\ store = NilCert
    /\ state = [Current |-> NilCert, Previous |-> NilCert, LastRun |-> NoTime]
    /\ lastReloadTime = NoTime
    /\ agentPc = "idle"
    /\ watcher = "none"
    /\ watched = {}
    /\ events = <<>>
    /\ errs = 0
    /\ tick = FALSE
    /\ mainPc = "start"
    /\ handlerPc = "idle"
    /\ sigChan = 0
    /\ agentStopChan = 0
    /\ agentDone = 0
    /\ shutdownDone = 0
    /\ srv = [calls |-> 0, result |-> "none"]
    /\ panicked = FALSE
    /\ warned = FALSE
    /\ lookup = NilCert
    /\ published = {}
    /\ sigSent = 0
    /\ lastFileAttempt = [n |-> 0, at |-> NoTime, ok |-> FALSE]
    /\ lastSuccess = NoTime
    /\ updPc = [u \in ValidIds |-> "idle"]
    /\ updIdx = [u \in ValidIds |-> 0]
    /\ history = <<>>
    /\ returned = 0
    /\ lookPc = "idle"
    /\ lookFloor = 0
    /\ running = FALSE

\* main with its configuration loaded
Init ==
    /\ featureConfig \in MainConfigs
    /\ configFile = NoPath
    /\ environ = NoEnv
    /\ loaderPc = "done"
    /\ parsesLeaf \in BOOLEAN
    /\ certFile \in FileContent
    /\ keyFile \in FileContent
    /\ InitProgram

\* ------------------------------------------------- configuration loading
progVars == <<callVars, now, fsVars, agentVars, queueVars, mainVars, handlerVars,
              chanVars, lookup>>

\* main.go:20, features.go:112-116
NewConfigLoader ==
    /\ loaderPc = "new"
    /\ featureConfig' = DefaultFeatures
    /\ loaderPc' = "file"
    /\ UNCHANGED <<configFile, environ, parsesLeaf, running, progVars>>

\* main.go:23-29: YAML first, JSON when that fails, a warning when both fail
LoadConfigFile ==
    /\ loaderPc = "file"
    /\ featureConfig' =
          IF configFile.format = "nopath" THEN featureConfig
          ELSE LET y == LoadFromYAML(featureConfig, configFile) IN
               IF y.ok THEN y.features
               ELSE LoadFromJSON(y.features, configFile).features
    /\ loaderPc' = "env"
    /\ UNCHANGED <<configFile, environ, parsesLeaf, running, progVars>>

\* main.go:32-34
LoadEnv ==
    /\ loaderPc = "env"
    /\ featureConfig' = LoadFromEnv(featureConfig, environ)
    /\ loaderPc' = "get"
    /\ UNCHANGED <<configFile, environ, parsesLeaf, running, progVars>>

\* main.go:36
GetFeatures ==
    /\ loaderPc = "get"
    /\ featureConfig' = Get(featureConfig)
    /\ loaderPc' = "done"
    /\ UNCHANGED <<configFile, environ, parsesLeaf, running, progVars>>

\* ------------------------------------------------------------------ main
\* main.go:39-112: bootstrap load, store, state, the two goroutines
MainStart_closeBoth ==
    /\ mainPc = "start"
    /\ loaderPc = "done"
    /\ LET r == Load(certFile, keyFile) IN
       IF ~r.ok
       THEN /\ mainPc' = "fatal"
            /\ UNCHANGED <<store, state, running, published, agentPc, agentDone,
                           handlerPc, shutdownDone>>
       ELSE /\ store' = New(r.cert)
            /\ published' = {r.cert}
            /\ state' = [Current |-> r.cert, Previous |-> NilCert, LastRun |-> NoTime]
            /\ running' = NewStateRunning
            /\ IF featureConfig.CertificateWatcher
               THEN agentPc' = "start" /\ UNCHANGED agentDone
               ELSE agentDone' = agentDone + 1 /\ UNCHANGED agentPc
            /\ IF featureConfig.GracefulShutdown
               THEN handlerPc' = "start" /\ shutdownDone' = shutdownDone + 1
               ELSE shutdownDone' = shutdownDone + 1 /\ UNCHANGED handlerPc
            /\ mainPc' = "listen"
    /\ UNCHANGED <<cfgVars, callVars, now, fsVars, lastReloadTime, watcher, watched,
                   queueVars, srv, warned, sigChan, sigSent, agentStopChan,
                   panicked, lookup, lastFileAttempt, lastSuccess>>
MainStart ==
    /\ mainPc = "start"
    /\ loaderPc = "done"
    /\ LET r == Load(certFile, keyFile) IN
       IF ~r.ok
       THEN /\ mainPc' = "fatal"
            /\ UNCHANGED <<store, state, running, published, agentPc, agentDone,
                           handlerPc, shutdownDone>>
       ELSE /\ store' = New(r.cert)
            /\ published' = {r.cert}
            /\ state' = [Current |-> r.cert, Previous |-> NilCert, LastRun |-> NoTime]
            /\ running' = NewStateRunning
            /\ IF featureConfig.CertificateWatcher
               THEN agentPc' = "start" /\ UNCHANGED agentDone
               ELSE agentDone' = agentDone + 1 /\ UNCHANGED agentPc
            /\ IF featureConfig.GracefulShutdown
               THEN handlerPc' = "start" /\ UNCHANGED shutdownDone
               ELSE shutdownDone' = shutdownDone + 1 /\ UNCHANGED handlerPc
            /\ mainPc' = "listen"
    /\ UNCHANGED <<cfgVars, callVars, now, fsVars, lastReloadTime, watcher, watched,
                   queueVars, srv, warned, sigChan, sigSent, agentStopChan,
                   panicked, lookup, lastFileAttempt, lastSuccess>>

\* main.go:119: ListenAndServeTLS returns http.ErrServerClosed once Shutdown was called
ListenClosed ==
    /\ procAlive /\ mainPc = "listen"
    /\ srv.calls > 0
    /\ mainPc' = "waitShutdown"
    /\ UNCHANGED <<cfgVars, running, callVars, now, fsVars, agentVars, queueVars, srv, warned,
                   handlerVars, chanVars, lookup>>

\* main.go:119-121: ListenAndServeTLS returns another error (e.g. the bind fails)
ListenError ==
    /\ procAlive /\ mainPc = "listen"
    /\ srv.calls = 0
    /\ mainPc' = "waitShutdown"
    /\ UNCHANGED <<cfgVars, running, callVars, now, fsVars, agentVars, queueVars, srv, warned,
                   handlerVars, chanVars, lookup>>

\* main.go:124-132: <-shutdownDone, then the agent wait only if the watcher is enabled
MainShutdownDone_nowait ==
    /\ procAlive /\ mainPc = "waitShutdown"
    /\ mainPc' = IF featureConfig.CertificateWatcher THEN "waitAgent" ELSE "complete"
    /\ UNCHANGED <<cfgVars, running, callVars, now, fsVars, agentVars, queueVars, srv, warned,
                   handlerVars, chanVars, lookup>>
MainShutdownDone ==
    /\ procAlive /\ mainPc = "waitShutdown"
    /\ Closed(shutdownDone)
    /\ mainPc' = IF featureConfig.CertificateWatcher THEN "waitAgent" ELSE "complete"
    /\ UNCHANGED <<cfgVars, running, callVars, now, fsVars, agentVars, queueVars, srv, warned,
                   handlerVars, chanVars, lookup>>

\* main.go:135-138,144: case <-agentDone
MainAgentDone ==
    /\ procAlive /\ mainPc = "waitAgent"
    /\ Closed(agentDone)
    /\ mainPc' = "complete"
    /\ UNCHANGED <<cfgVars, running, callVars, now, fsVars, agentVars, queueVars, srv, warned,
                   handlerVars, chanVars, lookup>>

\* main.go:139-140,144: case <-agentStopCtx.Done()
MainAgentTimeout_retry ==
    /\ procAlive /\ mainPc = "waitAgent"
    /\ warned' = TRUE
    /\ UNCHANGED <<cfgVars, running, callVars, now, fsVars, agentVars, queueVars, mainPc, srv,
                   handlerVars, chanVars, lookup>>
MainAgentTimeout ==
    /\ procAlive /\ mainPc = "waitAgent"
    /\ warned' = TRUE
    /\ mainPc' = "complete"
    /\ UNCHANGED <<cfgVars, running, callVars, now, fsVars, agentVars, queueVars, srv,
                   handlerVars, chanVars, lookup>>

\* ------------------------------------------------------ signal goroutine
\* main.go:79-80: signal.Notify
HandlerNotify ==
    /\ procAlive /\ handlerPc = "start"
    /\ handlerPc' = "waitSig"
    /\ UNCHANGED <<cfgVars, running, callVars, now, fsVars, agentVars, queueVars, mainVars,
                   sigChan, sigSent, chanVars, lookup>>

\* SIGINT/SIGTERM reaches the process: buffered in sigChan if it has room,
\* dropped if not; before signal.Notify the default action ends the process
Signal ==
    /\ procAlive
    /\ sigSent < MaxSignals
    /\ sigSent' = sigSent + 1
    /\ IF handlerPc \in {"idle", "start"}
       THEN mainPc' = "killed" /\ UNCHANGED sigChan
       ELSE /\ sigChan' = IF sigChan < SigChanCap THEN sigChan + 1 ELSE sigChan
            /\ UNCHANGED mainPc
    /\ UNCHANGED <<cfgVars, running, callVars, now, fsVars, agentVars, queueVars, srv, warned,
                   handlerPc, chanVars, lookup>>

\* main.go:82-91: sig := <-sigChan; close(agentStopChan) if the watcher is enabled
HandlerRecv_always ==
    /\ procAlive /\ handlerPc = "waitSig"
    /\ sigChan > 0
    /\ sigChan' = sigChan - 1
    /\ IF TRUE
       THEN IF Closed(agentStopChan)
            THEN panicked' = TRUE /\ UNCHANGED agentStopChan
            ELSE agentStopChan' = agentStopChan + 1 /\ UNCHANGED panicked
       ELSE UNCHANGED <<agentStopChan, panicked>>
    /\ handlerPc' = "shutdown"
    /\ UNCHANGED <<cfgVars, running, callVars, now, fsVars, agentVars, queueVars, mainVars,
                   sigSent, agentDone, shutdownDone, lookup>>
HandlerRecv_noclose ==
    /\ procAlive /\ handlerPc = "waitSig"
    /\ sigChan > 0
    /\ sigChan' = sigChan - 1
    /\ IF FALSE
       THEN IF Closed(agentStopChan)
            THEN panicked' = TRUE /\ UNCHANGED agentStopChan
            ELSE agentStopChan' = agentStopChan + 1 /\ UNCHANGED panicked
       ELSE UNCHANGED <<agentStopChan, panicked>>
    /\ handlerPc' = "shutdown"
    /\ UNCHANGED <<cfgVars, running, callVars, now, fsVars, agentVars, queueVars, mainVars,
                   sigSent, agentDone, shutdownDone, lookup>>
HandlerRecv ==
    /\ procAlive /\ handlerPc = "waitSig"
    /\ sigChan > 0
    /\ sigChan' = sigChan - 1
    /\ IF featureConfig.CertificateWatcher
       THEN IF Closed(agentStopChan)
            THEN panicked' = TRUE /\ UNCHANGED agentStopChan
            ELSE agentStopChan' = agentStopChan + 1 /\ UNCHANGED panicked
       ELSE UNCHANGED <<agentStopChan, panicked>>
    /\ handlerPc' = "shutdown"
    /\ UNCHANGED <<cfgVars, running, callVars, now, fsVars, agentVars, queueVars, mainVars,
                   sigSent, agentDone, shutdownDone, lookup>>

\* main.go:94-98: server.Shutdown(ctx) is entered: the listeners are closed
HandlerShutdownCall ==
    /\ procAlive /\ handlerPc = "shutdown"
    /\ srv' = [srv EXCEPT !.calls = @ + 1]
    /\ handlerPc' = "inShutdown"
    /\ UNCHANGED <<cfgVars, running, callVars, now, fsVars, agentVars, queueVars, mainPc, warned,
                   sigChan, sigSent, chanVars, lookup>>

\* main.go:98-105: Shutdown returns nil (drained) or ctx.Err() (ShutdownTimeout
\* expired); either way shutdownDone is closed
HandlerShutdownReturnWith_loop(result) ==
    /\ procAlive /\ handlerPc = "inShutdown"
    /\ srv' = [srv EXCEPT !.result = result]
    /\ IF Closed(shutdownDone)
       THEN panicked' = TRUE /\ UNCHANGED shutdownDone
       ELSE shutdownDone' = shutdownDone + 1 /\ UNCHANGED panicked
    /\ handlerPc' = "waitSig"
    /\ UNCHANGED <<cfgVars, running, callVars, now, fsVars, agentVars, queueVars, mainPc, warned,
                   sigChan, sigSent, agentStopChan, agentDone, lookup>>
HandlerShutdownReturnWith_abort(result) ==
    /\ procAlive /\ handlerPc = "inShutdown"
    /\ srv' = [srv EXCEPT !.result = result]
    /\ IF result = "timeout"
       THEN UNCHANGED <<shutdownDone, panicked>>
       ELSE IF Closed(shutdownDone)
            THEN panicked' = TRUE /\ UNCHANGED shutdownDone
            ELSE shutdownDone' = shutdownDone + 1 /\ UNCHANGED panicked
    /\ handlerPc' = "done"
    /\ UNCHANGED <<cfgVars, running, callVars, now, fsVars, agentVars, queueVars, mainPc, warned,
                   sigChan, sigSent, agentStopChan, agentDone, lookup>>
HandlerShutdownReturnWith(result) ==
    /\ procAlive /\ handlerPc = "inShutdown"
    /\ srv' = [srv EXCEPT !.result = result]
    /\ IF Closed(shutdownDone)
       THEN panicked' = TRUE /\ UNCHANGED shutdownDone
       ELSE shutdownDone' = shutdownDone + 1 /\ UNCHANGED panicked
    /\ handlerPc' = "done"
    /\ UNCHANGED <<cfgVars, running, callVars, now, fsVars, agentVars, queueVars, mainPc, warned,
                   sigChan, sigSent, agentStopChan, agentDone, lookup>>

HandlerShutdownReturn == \E result \in {"ok", "timeout"} : HandlerShutdownReturnWith(result)

\* ----------------------------------------------------------------- agent
\* agent.go:132-145.  The result carries what the call leaves in the store
\* and in the State.
reloadCert_noreturn(s, st) ==
    LET r == Load(certFile, keyFile) IN
    [ok |-> r.ok,
     store |-> Update(s, r.cert),
     state |-> [st EXCEPT !.Previous = st.Current, !.Current = r.cert]]
\* agent.go:138-140: the store and the State after each of the three
\* statements of a reload whose Load returned cert
reloadCertSteps(s, st, cert) ==
    LET st1 == [st EXCEPT !.Previous = st.Current]
        st2 == [st1 EXCEPT !.Current = cert]
    IN  <<[store |-> s, state |-> st1],
          [store |-> s, state |-> st2],
          [store |-> Update(s, cert), state |-> st2]>>

reloadCert_currentFirst(s, st) ==
    LET r == Load(certFile, keyFile) IN
    IF ~r.ok
    THEN [ok |-> FALSE, store |-> s, state |-> st]
    ELSE [ok |-> TRUE,
          store |-> Update(s, r.cert),
          state |-> [st EXCEPT !.Current = r.cert, !.Previous = r.cert]]
reloadCert(s, st) ==
    LET r == Load(certFile, keyFile) IN
    IF ~r.ok
    THEN [ok |-> FALSE, store |-> s, state |-> st]
    ELSE LET last == reloadCertSteps(s, st, r.cert)[3] IN
         [ok |-> TRUE, store |-> last.store, state |-> last.state]

\* agent.go:103
Debounced_never(t) == t - lastReloadTime < 0
Debounced_le(t) == t - lastReloadTime <= reloadDebounce
Debounced(t) == t - lastReloadTime < reloadDebounce

\* agent.go:122
NearExpiry(cert, t) == cert.leaf # NoLeaf /\ cert.leaf - t < ExpiryWarning

\* agent.go:66-91: NewWatcher, the two watcher.Add, the ticker, lastReloadTime
AgentSetupWith_continue(newOk, addCrt, addKey) ==
    /\ procAlive /\ agentPc = "start"
    /\ watcher' = IF newOk THEN "open" ELSE watcher
    /\ watched' = IF newOk
                  THEN (IF addCrt THEN {"crt"} ELSE {}) \cup
                       (IF addKey THEN {"key"} ELSE {})
                  ELSE watched
    /\ lastReloadTime' = now
    /\ agentPc' = "select"
    /\ UNCHANGED <<cfgVars, running, callVars, now, fsVars, store, state, published,
                   lastFileAttempt, lastSuccess, queueVars, mainVars, handlerVars,
                   chanVars, lookup>>
AgentSetupWith(newOk, addCrt, addKey) ==
    /\ procAlive /\ agentPc = "start"
    /\ IF ~newOk
       THEN /\ agentPc' = "returned"
            /\ UNCHANGED <<watcher, watched, lastReloadTime>>
       ELSE /\ watcher' = "open"
            /\ watched' = (IF addCrt THEN {"crt"} ELSE {}) \cup
                          (IF addKey THEN {"key"} ELSE {})
            /\ lastReloadTime' = now
            /\ agentPc' = "select"
    /\ UNCHANGED <<cfgVars, running, callVars, now, fsVars, store, state, published, lastFileAttempt,
                   lastSuccess, queueVars, mainVars, handlerVars, chanVars, lookup>>

AgentSetup == \E newOk, addCrt, addKey \in BOOLEAN : AgentSetupWith(newOk, addCrt, addKey)

\* return from Run with the deferred ticker.Stop() and watcher.Close() (agent.go:73,87)
RunReturns ==
    /\ agentPc' = "returned"
    /\ watcher' = "closed"
    /\ events' = <<>> /\ errs' = 0 /\ tick' = FALSE

\* agent.go:95-112,128: case event, ok := <-watcher.Events
HandleEvent_stampAlways ==
    /\ procAlive /\ agentPc = "select"
    /\ events # <<>> \/ watcher = "closed"
    /\ IF events = <<>>
       THEN /\ RunReturns
            /\ UNCHANGED <<store, state, lastReloadTime, published,
                           lastFileAttempt, lastSuccess>>
       ELSE /\ events' = Tail(events)
            /\ UNCHANGED <<agentPc, watcher, errs, tick>>
            /\ IF Head(events) = "Write"
               THEN IF Debounced(now)
                    THEN UNCHANGED <<store, state, lastReloadTime, published,
                                     lastFileAttempt, lastSuccess>>
                    ELSE LET r == reloadCert(store, state) IN
                         /\ store' = r.store
                         /\ state' = [r.state EXCEPT !.LastRun = now]
                         /\ lastReloadTime' = now
                         /\ published' = IF r.ok THEN published \cup {r.state.Current}
                                         ELSE published
                         /\ lastFileAttempt' = [n |-> 1 - lastFileAttempt.n,
                                                at |-> now, ok |-> r.ok]
                         /\ lastSuccess' = IF r.ok THEN now ELSE lastSuccess
               ELSE /\ state' = [state EXCEPT !.LastRun = now]
                    /\ UNCHANGED <<store, lastReloadTime, published,
                                   lastFileAttempt, lastSuccess>>
    /\ UNCHANGED <<cfgVars, running, callVars, now, fsVars, watched, mainVars, handlerVars,
                   chanVars, lookup>>
HandleEvent_anyOp ==
    /\ procAlive /\ agentPc = "select"
    /\ events # <<>> \/ watcher = "closed"
    /\ IF events = <<>>
       THEN /\ RunReturns
            /\ UNCHANGED <<store, state, lastReloadTime, published,
                           lastFileAttempt, lastSuccess>>
       ELSE /\ events' = Tail(events)
            /\ UNCHANGED <<agentPc, watcher, errs, tick>>
            /\ IF Head(events) \in Ops
               THEN IF Debounced(now)
                    THEN UNCHANGED <<store, state, lastReloadTime, published,
                                     lastFileAttempt, lastSuccess>>
                    ELSE LET r == reloadCert(store, state) IN
                         /\ store' = r.store
                         /\ state' = [r.state EXCEPT !.LastRun = now]
                         /\ lastReloadTime' = IF r.ok THEN now ELSE lastReloadTime
                         /\ published' = IF r.ok THEN published \cup {r.state.Current}
                                         ELSE published
                         /\ lastFileAttempt' = [n |-> 1 - lastFileAttempt.n,
                                                at |-> now, ok |-> r.ok]
                         /\ lastSuccess' = IF r.ok THEN now ELSE lastSuccess
               ELSE /\ state' = [state EXCEPT !.LastRun = now]
                    /\ UNCHANGED <<store, lastReloadTime, published,
                                   lastFileAttempt, lastSuccess>>
    /\ UNCHANGED <<cfgVars, running, callVars, now, fsVars, watched, mainVars, handlerVars,
                   chanVars, lookup>>
HandleEvent ==
    /\ procAlive /\ agentPc = "select"
    /\ events # <<>> \/ watcher = "closed"
    /\ IF events = <<>>
       THEN /\ RunReturns
            /\ UNCHANGED <<store, state, lastReloadTime, published,
                           lastFileAttempt, lastSuccess>>
       ELSE /\ events' = Tail(events)
            /\ UNCHANGED <<agentPc, watcher, errs, tick>>
            /\ IF Head(events) = "Write"
               THEN IF Debounced(now)
                    THEN UNCHANGED <<store, state, lastReloadTime, published,
                                     lastFileAttempt, lastSuccess>>
                    ELSE LET r == reloadCert(store, state) IN
                         /\ store' = r.store
                         /\ state' = [r.state EXCEPT !.LastRun = now]
                         /\ lastReloadTime' = IF r.ok THEN now ELSE lastReloadTime
                         /\ published' = IF r.ok THEN published \cup {r.state.Current}
                                         ELSE published
                         /\ lastFileAttempt' = [n |-> 1 - lastFileAttempt.n,
                                                at |-> now, ok |-> r.ok]
                         /\ lastSuccess' = IF r.ok THEN now ELSE lastSuccess
               ELSE /\ state' = [state EXCEPT !.LastRun = now]
                    /\ UNCHANGED <<store, lastReloadTime, published,
                                   lastFileAttempt, lastSuccess>>
    /\ UNCHANGED <<cfgVars, running, callVars, now, fsVars, watched, mainVars, handlerVars,
                   chanVars, lookup>>

\* agent.go:114-118,128: case err, ok := <-watcher.Errors
HandleError_reload ==
    /\ procAlive /\ agentPc = "select"
    /\ errs > 0 \/ watcher = "closed"
    /\ IF errs = 0
       THEN RunReturns /\ UNCHANGED state
       ELSE /\ errs' = errs - 1
            /\ state' = [reloadCert(store, state).state EXCEPT !.LastRun = now]
            /\ UNCHANGED <<agentPc, watcher, events, tick>>
    /\ UNCHANGED <<cfgVars, running, callVars, now, fsVars, store, lastReloadTime, watched,
                   published, lastFileAttempt, lastSuccess, mainVars, handlerVars,
                   chanVars, lookup>>
HandleError_fatal ==
    /\ procAlive /\ agentPc = "select"
    /\ errs > 0 \/ watcher = "closed"
    /\ RunReturns /\ UNCHANGED state
    /\ UNCHANGED <<cfgVars, running, callVars, now, fsVars, store, lastReloadTime, watched,
                   published, lastFileAttempt, lastSuccess, mainVars, handlerVars,
                   chanVars, lookup>>
HandleError ==
    /\ procAlive /\ agentPc = "select"
    /\ errs > 0 \/ watcher = "closed"
    /\ IF errs = 0
       THEN RunReturns /\ UNCHANGED state
       ELSE /\ errs' = errs - 1
            /\ state' = [state EXCEPT !.LastRun = now]
            /\ UNCHANGED <<agentPc, watcher, events, tick>>
    /\ UNCHANGED <<cfgVars, running, callVars, now, fsVars, store, lastReloadTime, watched, published,
                   lastFileAttempt, lastSuccess, mainVars, handlerVars, chanVars,
                   lookup>>

\* agent.go:120-125,128: case <-ticker.C
HandleTick_debounced ==
    /\ procAlive /\ agentPc = "select"
    /\ tick
    /\ tick' = FALSE
    /\ IF NearExpiry(state.Current, now) /\ ~Debounced(now)
       THEN LET r == reloadCert(store, state) IN
            /\ store' = r.store
            /\ state' = [r.state EXCEPT !.LastRun = now]
            /\ published' = IF r.ok THEN published \cup {r.state.Current}
                            ELSE published
            /\ lastSuccess' = IF r.ok THEN now ELSE lastSuccess
       ELSE /\ state' = [state EXCEPT !.LastRun = now]
            /\ UNCHANGED <<store, published, lastSuccess>>
    /\ UNCHANGED <<cfgVars, running, callVars, now, fsVars, lastReloadTime, agentPc, watcher, watched,
                   lastFileAttempt, events, errs, mainVars, handlerVars, chanVars,
                   lookup>>
HandleTick ==
    /\ procAlive /\ agentPc = "select"
    /\ tick
    /\ tick' = FALSE
    /\ IF NearExpiry(state.Current, now)
       THEN LET r == reloadCert(store, state) IN
            /\ store' = r.store
            /\ state' = [r.state EXCEPT !.LastRun = now]
            /\ published' = IF r.ok THEN published \cup {r.state.Current}
                            ELSE published
            /\ lastSuccess' = IF r.ok THEN now ELSE lastSuccess
       ELSE /\ state' = [state EXCEPT !.LastRun = now]
            /\ UNCHANGED <<store, published, lastSuccess>>
    /\ UNCHANGED <<cfgVars, running, callVars, now, fsVars, lastReloadTime, agentPc, watcher, watched,
                   lastFileAttempt, events, errs, mainVars, handlerVars, chanVars,
                   lookup>>

\* main.go:58-59: Run has returned, close(agentDone)
AgentExit ==
    /\ procAlive /\ agentPc = "returned"
    /\ agentPc' = "done"
    /\ IF Closed(agentDone)
       THEN panicked' = TRUE /\ UNCHANGED agentDone
       ELSE agentDone' = agentDone + 1 /\ UNCHANGED panicked
    /\ UNCHANGED <<cfgVars, running, callVars, now, fsVars, store, state, lastReloadTime, watcher,
                   watched, published, lastFileAttempt, lastSuccess, queueVars,
                   mainVars, handlerVars, agentStopChan, shutdownDone, lookup>>

\* ------------------------------------------------------------ environment
Delivered(f) == watcher = "open" /\ f \in watched

\* a file is (over)written in place; fsnotify reports Write if it is watched
WriteFile(f, c) ==
    /\ procAlive /\ mainPc # "start"
    /\ IF f = "crt" THEN certFile' = c /\ UNCHANGED keyFile
                    ELSE keyFile' = c /\ UNCHANGED certFile
    /\ IF Delivered(f)
       THEN Len(events) < MaxQueue /\ events' = Append(events, "Write")
       ELSE UNCHANGED events
    /\ UNCHANGED <<cfgVars, running, callVars, now, agentVars, errs, tick, mainVars, handlerVars,
                   chanVars, lookup>>

\* a file is deleted; fsnotify reports Remove if it is watched
RemoveFile(f) ==
    /\ procAlive /\ mainPc # "start"
    /\ IF f = "crt" THEN certFile' = Missing /\ UNCHANGED keyFile
                    ELSE keyFile' = Missing /\ UNCHANGED certFile
    /\ IF Delivered(f)
       THEN Len(events) < MaxQueue /\ events' = Append(events, "Remove")
       ELSE UNCHANGED events
    /\ UNCHANGED <<cfgVars, running, callVars, now, agentVars, errs, tick, mainVars, handlerVars,
                   chanVars, lookup>>

FileChange ==
    \E f \in Files :
        \/ \E c \in ValidIds \cup {Malformed} : WriteFile(f, c)
        \/ RemoveFile(f)

\* a file is overwritten with the certificate or key of some valid pair
FileReplace == \E f \in Files : \E c \in ValidIds : WriteFile(f, c)

\* a file is written again with the bytes it already holds
RewriteFile(f) == WriteFile(f, IF f = "crt" THEN certFile ELSE keyFile)

FileRewrite == \E f \in Files : RewriteFile(f)

\* the watcher reports an error
WatcherError ==
    /\ procAlive /\ watcher = "open"
    /\ errs < MaxErrors
    /\ errs' = errs + 1
    /\ UNCHANGED <<cfgVars, running, callVars, now, fsVars, agentVars, events, tick, mainVars,
                   handlerVars, chanVars, lookup>>

\* the watcher's channels are closed under the running agent
WatcherClose ==
    /\ procAlive /\ watcher = "open" /\ agentPc = "select"
    /\ watcher' = "closed"
    /\ events' = <<>> /\ errs' = 0
    /\ UNCHANGED <<cfgVars, running, callVars, now, fsVars, store, state, lastReloadTime, agentPc,
                   watched, published, lastFileAttempt, lastSuccess, tick,
                   mainVars, handlerVars, chanVars, lookup>>

\* the ticker delivers a tick (ticker.C holds at most one)
TickerFire ==
    /\ procAlive /\ agentPc = "select"
    /\ ~tick
    /\ tick' = TRUE
    /\ UNCHANGED <<cfgVars, running, callVars, now, fsVars, agentVars, events, errs, mainVars,
                   handlerVars, chanVars, lookup>>

\* one second passes; never while a delivered event waits for a selecting agent
Advance ==
    /\ procAlive
    /\ now < MaxTime
    /\ ~(agentPc = "select" /\ events # <<>>)
    /\ now' = now + 1
    /\ UNCHANGED <<cfgVars, running, callVars, fsVars, agentVars, queueVars, mainVars, handlerVars,
                   chanVars, lookup>>

\* a TLS handshake of the listener: tls.Config.GetCertificate (main.go:47)
Lookup_stamp ==
    /\ procAlive /\ mainPc = "listen"
    /\ lookup' = GetCertificate(store)
    /\ state' = [state EXCEPT !.LastRun = now]
    /\ UNCHANGED <<cfgVars, running, callVars, now, fsVars, store, lastReloadTime, agentPc,
                   watcher, watched, published, lastFileAttempt, lastSuccess,
                   queueVars, mainVars, handlerVars, chanVars>>
Lookup ==
    /\ procAlive /\ mainPc = "listen"
    /\ lookup' = GetCertificate(store)
    /\ UNCHANGED <<cfgVars, running, callVars, now, fsVars, agentVars, queueVars, mainVars,
                   handlerVars, chanVars>>

\* ------------------------------------------- concurrent callers of the Store
\* Goroutines that call Store.Update and Store.GetCertificate with no
\* synchronisation among them.  A call is entered, performs the one atomic
\* operation of its body, and returns; caller u publishes the pair u.
PairCert(id) == Load(id, id).cert

Range(seq) == {seq[i] : i \in 1..Len(seq)}

\* the values a GetCertificate may see when the stores up to place floor have
\* returned: the one at floor (the value of New when no Update has returned)
\* or a later one
StoredSince(floor) ==
    IF floor = 0 THEN {state.Current} \cup Range(history)
    ELSE {history[j] : j \in floor..Len(history)}

\* part_012:22: Update is entered
UpdateCall(u) ==
    /\ mainPc = "listen" /\ updPc[u] = "idle"
    /\ Len(history) + Cardinality({v \in ValidIds : updPc[v] = "called"}) < MaxStores
    /\ updPc' = [updPc EXCEPT ![u] = "called"]
    /\ UNCHANGED <<cfgVars, running, now, fsVars, agentVars, queueVars, mainVars,
                   handlerVars, chanVars, lookup, updIdx, history, returned,
                   lookPc, lookFloor>>

\* part_012:23: s.cert.Store(cert)
UpdateStore(u) ==
    /\ updPc[u] = "called"
    /\ store' = Update(store, PairCert(u))
    /\ published' = published \cup {PairCert(u)}
    /\ history' = Append(history, PairCert(u))
    /\ updIdx' = [updIdx EXCEPT ![u] = Len(history) + 1]
    /\ updPc' = [updPc EXCEPT ![u] = "stored"]
    /\ UNCHANGED <<cfgVars, running, now, fsVars, state, lastReloadTime, agentPc, watcher,
                   watched, lastFileAttempt, lastSuccess, queueVars, mainVars,
                   handlerVars, chanVars, lookup, returned, lookPc, lookFloor>>

\* part_012:24: Update returns
UpdateReturn(u) ==
    /\ updPc[u] = "stored"
    /\ updPc' = [updPc EXCEPT ![u] = "idle"]
    /\ returned' = IF updIdx[u] > returned THEN updIdx[u] ELSE returned
    /\ UNCHANGED <<cfgVars, running, now, fsVars, agentVars, queueVars, mainVars,
                   handlerVars, chanVars, lookup, updIdx, history, lookPc,
                   lookFloor>>

StoreUpdate == \E u \in ValidIds : UpdateCall(u) \/ UpdateStore(u) \/ UpdateReturn(u)

\* part_012:18: GetCertificate is entered
LookupCall ==
    /\ mainPc = "listen" /\ lookPc = "idle"
    /\ lookPc' = "called"
    /\ lookFloor' = returned
    /\ UNCHANGED <<cfgVars, running, now, fsVars, agentVars, queueVars, mainVars,
                   handlerVars, chanVars, lookup, updPc, updIdx, history,
                   returned>>

LookupReturn_swap ==
    /\ lookPc = "called"
    /\ lookup' = GetCertificate(store)
    /\ store' = NilCert
    /\ lookPc' = "idle"
    /\ UNCHANGED <<cfgVars, running, now, fsVars, state, lastReloadTime, agentPc, watcher,
                   watched, published, lastFileAttempt, lastSuccess, queueVars,
                   mainVars, handlerVars, chanVars, updPc, updIdx, history,
                   returned, lookFloor>>
\* part_012:19: return s.cert.Load()
LookupReturn ==
    /\ lookPc = "called"
    /\ lookup' = GetCertificate(store)
    /\ lookPc' = "idle"
    /\ UNCHANGED <<cfgVars, running, now, fsVars, agentVars, queueVars, mainVars,
                   handlerVars, chanVars, updPc, updIdx, history, returned,
                   lookFloor>>

\* a *Store: the nil pointer, or a pointer to a Store whose cert holds a value
NilStore == [isNil |-> TRUE, cert |-> NilCert]
StoreAt(s) == [isNil |-> FALSE, cert |-> s]

\* part_012:18-20 with its receiver: s.cert.Load() on a nil s dereferences
\* the nil pointer, and the goroutine panics
GetCertificateOn(recv) ==
    IF recv.isNil
    THEN [panic |-> TRUE, cert |-> NilCert]
    ELSE [panic |-> FALSE, cert |-> GetCertificate(recv.cert)]

\* a caller holding a *Store of its own, nil or not, calls GetCertificate
LookupOn(recv) ==
    /\ mainPc = "listen" /\ lookPc = "idle" /\ ~panicked
    /\ LET r == GetCertificateOn(recv) IN
       /\ panicked' = r.panic
       /\ lookup' = IF r.panic THEN lookup ELSE r.cert
    /\ lookPc' = IF recv.isNil THEN "nilStore" ELSE "idle"
    /\ UNCHANGED <<cfgVars, running, now, fsVars, agentVars, queueVars, mainVars,
                   handlerVars, agentStopChan, agentDone, shutdownDone,
                   updPc, updIdx, history, returned, lookFloor>>

LookupAnyStore == LookupOn(NilStore) \/ LookupOn(StoreAt(store))

\* State.Stop is called on the State; nothing in main or Run calls it
StateStop ==
    /\ store # NilCert /\ IsRunning(running)
    /\ running' = Stop(running)
    /\ UNCHANGED <<cfgVars, progVars>>

\* ---------------------------------------------------------- specifications
Next ==
    \/ NewConfigLoader \/ LoadConfigFile \/ LoadEnv \/ GetFeatures
    \/ MainStart \/ ListenClosed \/ ListenError \/ MainShutdownDone
    \/ MainAgentDone \/ MainAgentTimeout
    \/ HandlerNotify \/ Signal \/ HandlerRecv \/ HandlerShutdownCall
    \/ HandlerShutdownReturn
    \/ AgentSetup \/ HandleEvent \/ HandleError \/ HandleTick \/ AgentExit
    \/ FileChange \/ WatcherError \/ WatcherClose \/ TickerFire \/ Advance
    \/ Lookup \/ StoreUpdate \/ LookupCall \/ LookupReturn \/ LookupAnyStore
    \/ StateStop

Spec == Init /\ [][Next]_vars

\* The reload scenario: the default configuration, the process keeps serving
\* (no signal, no listener error), the watcher was set up and reports no error.
ReloadInit == Init /\ featureConfig = DefaultFeatures

ReloadNext ==
    \/ MainStart \/ AgentSetupWith(TRUE, TRUE, TRUE) \/ HandleEvent \/ HandleTick
    \/ FileChange \/ TickerFire \/ Advance \/ Lookup

ReloadSpec == ReloadInit /\ [][ReloadNext]_vars

\* Every goroutine that can take a step eventually takes it; the file system,
\* the ticker and the clock owe nothing.
FairReloadSpec ==
    /\ ReloadSpec
    /\ WF_vars(MainStart) /\ WF_vars(AgentSetupWith(TRUE, TRUE, TRUE))
    /\ WF_vars(HandleEvent) /\ WF_vars(HandleTick)

\* The shutdown scenario: every configuration, signals, listener errors, every
\* outcome of the watcher set-up, watcher errors and closure, ticks; the files
\* are rewritten but keep their content, and the scenario plays within one
\* second of the clock (the deadlines of main are not on the clock).
ShutdownNext ==
    \/ MainStart \/ ListenClosed \/ ListenError \/ MainShutdownDone
    \/ MainAgentDone \/ MainAgentTimeout
    \/ HandlerNotify \/ Signal \/ HandlerRecv \/ HandlerShutdownCall
    \/ HandlerShutdownReturn
    \/ AgentSetup \/ HandleEvent \/ HandleError \/ HandleTick \/ AgentExit
    \/ FileRewrite \/ WatcherError \/ WatcherClose \/ TickerFire

ShutdownSpec == Init /\ [][ShutdownNext]_vars

\* Goroutines are scheduled fairly; signals, listener errors, the file system,
\* the watcher, the ticker and the clock owe nothing.
GoroutinesFair ==
    /\ WF_vars(MainStart) /\ WF_vars(ListenClosed) /\ WF_vars(MainShutdownDone)
    /\ WF_vars(MainAgentDone)
    /\ WF_vars(HandlerNotify) /\ WF_vars(HandlerRecv)
    /\ WF_vars(HandlerShutdownCall) /\ WF_vars(HandlerShutdownReturn)
    /\ WF_vars(AgentSetup) /\ WF_vars(HandleEvent) /\ WF_vars(HandleError)
    /\ WF_vars(HandleTick) /\ WF_vars(AgentExit)

\* main waits for the agent as long as it takes: the deadline of the agent
\* wait is not assumed to expire
PatientShutdownSpec == ShutdownSpec /\ GoroutinesFair

\* the deadline of the agent wait (AgentShutdownTimeout) expires
FairShutdownSpec == ShutdownSpec /\ GoroutinesFair /\ WF_vars(MainAgentTimeout)

\* The serving scenario: the shutdown scenario with a listener that looks the
\* pair up and files that are replaced by those of other valid pairs.
ServeNext ==
    \/ MainStart \/ ListenClosed \/ ListenError \/ MainShutdownDone
    \/ MainAgentDone \/ MainAgentTimeout
    \/ HandlerNotify \/ Signal \/ HandlerRecv \/ HandlerShutdownCall
    \/ HandlerShutdownReturn
    \/ AgentSetup \/ HandleEvent \/ HandleTick \/ AgentExit
    \/ FileReplace \/ TickerFire \/ Lookup

ServeSpec == Init /\ [][ServeNext]_vars

\* The watch scenario: the default configuration, the process keeps serving,
\* the files are replaced by those of valid pairs, and the watcher may fail in
\* every way: NewWatcher or either watcher.Add fails, the watcher reports
\* errors, its channels are closed.
WatchNext ==
    \/ MainStart \/ AgentSetup \/ HandleEvent \/ HandleError \/ AgentExit
    \/ FileReplace \/ WatcherError \/ WatcherClose \/ Advance \/ Lookup

WatchSpec == ReloadInit /\ [][WatchNext]_vars

\* The file-churn scenario: the reload scenario without ticks and lookups:
\* the files are written, corrupted and deleted while the agent handles the
\* events of its watcher.
ChurnNext ==
    \/ MainStart \/ AgentSetupWith(TRUE, TRUE, TRUE) \/ HandleEvent
    \/ FileChange \/ Advance

ChurnSpec == ReloadInit /\ [][ChurnNext]_vars

\* The store scenario: after the bootstrap of main, one goroutine per pair
\* calls Update and one calls GetCertificate, in any interleaving.
StoreNext == MainStart \/ StoreUpdate \/ LookupCall \/ LookupReturn

StoreSpec == ReloadInit /\ [][StoreNext]_vars

\* The store scenario with a caller whose *Store may be nil.
NilStoreNext == StoreNext \/ LookupAnyStore

NilStoreSpec == ReloadInit /\ [][NilStoreNext]_vars

\* The configuration scenario: main loads its features from a configuration
\* file that sets at most one field and an environment that sets at most one
\* variable, then starts.
FileValues(f) == IF f \in BoolFields THEN BOOLEAN ELSE {15, 45}
FieldSettings ==
    {NoPath.fields} \cup
    UNION {{[k \in {TagOf[f]} |-> v] : v \in FileValues(f)} : f \in FeatureNames}
ConfigFiles ==
    {NoPath, [format |-> "unreadable", fields |-> NoPath.fields]} \cup
    {[format |-> fmt, fields |-> flds] :
        fmt \in {"yaml", "json"}, flds \in FieldSettings}
EnvStrings == {"true", "0", "45", "yes", ""}
Environs ==
    {NoEnv} \cup
    {[n \in {EnvNameOf[f]} |-> str] : f \in FeatureNames, str \in EnvStrings}

ConfigInit ==
    /\ featureConfig = ZeroFeatures
    /\ configFile \in ConfigFiles
    /\ environ \in Environs
    /\ loaderPc = "new"
    /\ parsesLeaf = FALSE
    /\ certFile = 1
    /\ keyFile = 1
    /\ InitProgram

ConfigNext ==
    NewConfigLoader \/ LoadConfigFile \/ LoadEnv \/ GetFeatures \/ MainStart

ConfigSpec == ConfigInit /\ [][ConfigNext]_vars

\* The configured-agent scenario: the reload scenario without lookups, under
\* configurations that switch the periodic check and the debouncing on and
\* off and give the three intervals the values the agent is written with
\* (2000 ms, 60 s, 7 days) or other ones.
IntervalSettings == {<<2000, 60, 7>>, <<3000, 30, 14>>}
AgentConfigs ==
    {[DefaultFeatures EXCEPT !.PeriodicCertCheck = p, !.DebounceFileChanges = d,
                             !.DebounceInterval = t[1], !.CertWatchInterval = t[2],
                             !.CertExpiryWarning = t[3]] :
        p \in BOOLEAN, d \in BOOLEAN, t \in IntervalSettings}

ConfiguredInit ==
    /\ featureConfig \in AgentConfigs
    /\ configFile = NoPath
    /\ environ = NoEnv
    /\ loaderPc = "done"
    /\ parsesLeaf \in BOOLEAN
    /\ certFile \in ValidIds
    /\ keyFile = certFile
    /\ InitProgram

ConfiguredNext ==
    \/ MainStart \/ AgentSetupWith(TRUE, TRUE, TRUE) \/ HandleEvent \/ HandleTick
    \/ FileReplace \/ TickerFire \/ Advance

ConfiguredSpec == ConfiguredInit /\ [][ConfiguredNext]_vars

\* ------------------------------------------------------------------ claims
DiskHolds(b) == certFile = b /\ keyFile = b
FileAttemptMade == lastFileAttempt'.n # lastFileAttempt.n
WriteEventHandled == HandleEvent /\ events # <<>> /\ Head(events) = "Write"
ErrorHandled == HandleError /\ errs > 0
TickHandled == agentPc = "select" /\ tick /\ ~tick' /\ agentPc' = "select"
\* time until the NotAfter of the leaf certificate of the pair, at clock t
RemainingValidity(cert, t) == NotAfterOf(cert.chain) - t

\* C1: every GetCertificate of the listener returns the pair given to New or a
\* pair given to some Update, whole: never a value no caller stored.
C1_LookupReturnsPublishedPair ==
    lookup # NilCert => lookup \in published /\ lookup.chain = lookup.key

\* C1 witness: a handshake got a pair the agent published after the bootstrap one
C1_Witness ==
    /\ lookup # NilCert /\ lookup = state.Current
    /\ state.Previous # NilCert /\ state.Previous # state.Current

\* C2: while the agent runs, a valid pair b written to both files and left
\* there is eventually the pair the store returns.
C2_NewPairEventuallyServed ==
    \A b \in ValidIds :
        (DiskHolds(b) /\ agentPc = "select")
            ~> (GetCertificate(store).chain = b \/ ~DiskHolds(b))

\* C3: a reload attempt whose Load fails changes neither the store nor
\* state.Current nor state.Previous and leaves the agent in its loop; so while
\* the files cannot be loaded (deleted, malformed, mismatched) no step changes
\* what the store returns.
C3_FailedLoadChangesNothing ==
    [][(mainPc # "start" /\ ~Load(certFile, keyFile).ok)
          => /\ store' = store
             /\ state'.Current = state.Current
             /\ state'.Previous = state.Previous
             /\ (agentPc = "select" => agentPc' = "select")]_vars

\* C3 witness: after a successful reload the files were deleted, a later
\* attempt failed, and the handshake still gets the last good pair
C3_Witness ==
    /\ certFile = Missing /\ keyFile = Missing
    /\ lastFileAttempt.at # NoTime /\ ~lastFileAttempt.ok
    /\ lastSuccess # NoTime /\ lastFileAttempt.at > lastSuccess
    /\ lookup = state.Current /\ store = state.Current

C5_SpacedEventTriggersAttempt ==
    [][(WriteEventHandled /\ lastSuccess # NoTime
            /\ now - lastSuccess >= reloadDebounce)
          => FileAttemptMade]_vars

\* C5 witness: a second attempt was made exactly the debounce interval after
\* a successful reload
C5_Witness ==
    /\ lastSuccess # NoTime /\ ~lastFileAttempt.ok
    /\ lastFileAttempt.at - lastSuccess = reloadDebounce

C7_OneShutdownSequence ==
    /\ [](~panicked /\ srv.calls <= 1 /\ agentStopChan <= 1 /\ shutdownDone <= 1)
    /\ [](handlerPc = "done"
            => /\ srv.calls = 1 /\ shutdownDone = 1
               /\ (featureConfig.CertificateWatcher => agentStopChan = 1))
    /\ (sigChan > 0 /\ handlerPc = "waitSig") ~> (handlerPc = "done")

\* C7 witness: the sequence has run and a second signal has been delivered
C7_Witness ==
    /\ handlerPc = "done" /\ sigSent >= 2 /\ sigChan > 0
    /\ srv.calls = 1 /\ shutdownDone = 1 /\ agentStopChan = 1

\* C8: main never stays in the agent wait; when it leaves it with agent-done
\* still open, the warning has been logged and main runs to its end.
C8_AgentWaitIsBounded ==
    /\ [](mainPc = "complete" /\ featureConfig.CertificateWatcher
            /\ ~Closed(agentDone) => warned)
    /\ (mainPc = "waitAgent") ~> (mainPc \in {"complete", "killed"})

\* C8 witness: stop was requested, the agent never closed agent-done, main
\* logged the warning and finished
C8_Witness ==
    /\ mainPc = "complete" /\ warned
    /\ Closed(agentStopChan) /\ ~Closed(agentDone) /\ agentPc = "select"

\* C9: when server.Shutdown returns the deadline error, shutdownDone is closed
\* all the same and main gets past <-shutdownDone.
C9_ShutdownErrorDoesNotBlock ==
    /\ [](srv.result = "timeout" => Closed(shutdownDone))
    /\ (srv.result = "timeout") ~> (mainPc \in {"waitAgent", "complete"})

\* C9 witness: Shutdown timed out and main is in the agent wait
C9_Witness == srv.result = "timeout" /\ mainPc = "waitAgent"

\* C10: once ListenAndServeTLS has returned, main reaches the end of main
\* without any further signal.
C10_ShutdownPathTerminates ==
    (mainPc = "waitShutdown") ~> (mainPc \in {"complete", "killed"})

\* C11 (as claimed): main is in the agent wait only after server.Shutdown has
\* been called and has returned, with or without the deadline error.
C11_AgentWaitAfterListenerShutdown ==
    mainPc = "waitAgent"
        => Closed(shutdownDone) /\ srv.calls >= 1 /\ srv.result # "none"

\* C11 (amended): main is in the agent wait only after shutdownDone is closed;
\* with GracefulShutdown enabled that is after server.Shutdown was called once
\* and returned, and main was never in both waits.
C11_AgentWaitAfterShutdownDone ==
    [][(mainPc' = "waitAgent" /\ mainPc # "waitAgent")
          => /\ mainPc = "waitShutdown"
             /\ Closed(shutdownDone)
             /\ (featureConfig.GracefulShutdown
                    => srv.calls = 1 /\ srv.result # "none" /\ handlerPc = "done")]_vars

\* C11 witness: Shutdown drained the listener, main went on to the agent wait
\* and the agent has not closed agent-done
C11_Witness ==
    /\ mainPc = "waitAgent" /\ srv.result = "ok" /\ handlerPc = "done"
    /\ ~Closed(agentDone)

\* C12: the agent-stop channel is closed only after server.Shutdown has
\* returned or timed out.
C12_ListenerStoppedBeforeAgentSignalled ==
    Closed(agentStopChan) => srv.result # "none"

\* C13: a GetCertificate that starts after an Update has returned yields the
\* pair of that Update or of a later store, never an earlier one; and once
\* every Update has returned, the store holds the pair that was stored last,
\* whole.
C13_LookupSeesReturnedUpdate ==
    /\ [][(lookPc = "called" /\ lookPc' = "idle")
            => lookup' \in StoredSince(lookFloor)]_vars
    /\ []((history # <<>> /\ \A u \in ValidIds : updPc[u] = "idle")
            => /\ GetCertificate(store) = history[Len(history)]
               /\ GetCertificate(store) \in {PairCert(u) : u \in ValidIds})

\* C13 witness: two Updates of different pairs have both returned, a
\* GetCertificate that started after the first of them had returned got the
\* pair stored last
C13_Witness ==
    /\ Len(history) >= 2 /\ history[1] # history[2]
    /\ \A u \in ValidIds : updPc[u] = "idle"
    /\ lookPc = "idle" /\ lookFloor >= 1
    /\ lookup = history[Len(history)] /\ lookup # history[lookFloor]

\* C14: for every feature-flag combination, each of agentStopChan, agentDone
\* and shutdownDone is closed at most once and no goroutine panics, however
\* many signals arrive; and once a signal has been received nothing is left
\* waiting: the signal goroutine and main both run to their end.
C14_ChannelsClosedOnce ==
    /\ [](agentStopChan <= 1 /\ agentDone <= 1 /\ shutdownDone <= 1 /\ ~panicked)
    /\ [][/\ agentStopChan' >= agentStopChan /\ agentDone' >= agentDone
          /\ shutdownDone' >= shutdownDone]_vars
    /\ (handlerPc = "shutdown")
          ~> (handlerPc = "done" /\ mainPc \in {"complete", "killed"})

\* C14 witness: the watcher is disabled, so agentDone was closed by main at
\* start-up; two signals were delivered, shutdownDone was closed by the signal
\* goroutine, and main finished
C14_Witness ==
    /\ ~featureConfig.CertificateWatcher /\ featureConfig.GracefulShutdown
    /\ sigSent >= 2 /\ handlerPc = "done" /\ mainPc = "complete"
    /\ agentDone = 1 /\ shutdownDone = 1 /\ agentStopChan = 0

\* C15: when fsnotify.NewWatcher fails, Run returns without a call of Update:
\* the process keeps running, the bootstrap pair is the only pair ever
\* published, and it is what the store and every later handshake return,
\* whatever is written to the files afterwards.
C15_NoWatcherKeepsBootstrapPair ==
    (watcher = "none" /\ agentPc \notin {"idle", "start"})
        => /\ agentPc \in {"returned", "done"}
           /\ procAlive
           /\ published = {GetCertificate(store)}
           /\ state.Current = GetCertificate(store) /\ state.Previous = NilCert
           /\ (lookup # NilCert => lookup = GetCertificate(store))

\* C15 witness: NewWatcher failed, Run returned and agentDone was closed; both
\* files have held another valid pair for longer than the debounce interval
\* and a handshake still got the bootstrap pair
C15_Witness ==
    /\ watcher = "none" /\ agentPc = "done" /\ Closed(agentDone)
    /\ \E b \in ValidIds : DiskHolds(b) /\ b # store.chain
    /\ now >= reloadDebounce /\ lookup = store /\ lookup # NilCert

\* C16: when a watcher.Add fails, Run returns without entering its loop and
\* the bootstrap pair stays the only pair published.
C16_FailedWatchStopsAgent ==
    (watcher # "none" /\ watched # Files)
        => agentPc \in {"returned", "done"} /\ published = {GetCertificate(store)}

\* C17: a handled tick calls reloadCert exactly when the current pair expires
\* within the warning threshold: if it does and the files load, the loaded
\* pair becomes current; if it does not, the store and the State keep their
\* pairs.
C17_TickReloadsIffNearExpiry ==
    [][TickHandled
          => LET near == RemainingValidity(state.Current, now) < ExpiryWarning
                 r == Load(certFile, keyFile)
             IN  /\ (near /\ r.ok)
                       => /\ store' = r.cert
                          /\ state'.Current = r.cert
                          /\ state'.Previous = state.Current
                 /\ ~near
                       => /\ store' = store
                          /\ state'.Current = state.Current
                          /\ state'.Previous = state.Previous]_vars

\* C18: handling an error received from watcher.Errors changes neither the
\* store nor state.Current nor state.Previous and leaves the agent selecting
\* on an open watcher; once the watcher's channels are closed the agent
\* leaves its loop.
C18_WatcherErrorIsNotFatal ==
    /\ [][ErrorHandled
            => /\ store' = store
               /\ state'.Current = state.Current
               /\ state'.Previous = state.Previous
               /\ agentPc' = "select" /\ watcher' = "open"
               /\ watched' = watched]_vars
    /\ (watcher = "closed" /\ agentPc = "select")
          ~> (agentPc # "select" \/ ~procAlive)

\* C18 witness: both files are watched, the agent has been through its loop,
\* no error is left in the channel; then the channels were closed and Run
\* returned with the process still serving
C18_Witness ==
    /\ watcher = "closed" /\ agentPc = "returned" /\ watched = Files
    /\ state.LastRun # NoTime /\ mainPc = "listen"

\* C19 (as claimed): Run has returned from its loop only if the agent-stop
\* channel is closed.
C19_ReturnOnlyAfterStop ==
    (watcher = "closed" /\ agentPc \in {"returned", "done"})
        => Closed(agentStopChan)

\* C19 (amended): Run leaves its loop only when a channel of the watcher is
\* reported closed or the agent-stop channel is closed, and having returned
\* it never runs again.
C19_ReturnOnlyAfterStopOrClosure ==
    /\ [][(agentPc = "select" /\ agentPc' # "select")
            => /\ agentPc' = "returned"
               /\ (watcher = "closed" \/ Closed(agentStopChan))]_vars
    /\ [][(agentPc \in {"returned", "done"})
            => agentPc' \in {"returned", "done"}]_vars

\* C19 witness: Run returned from its loop and agentDone is closed while the
\* agent-stop channel is still open
C19_Witness ==
    /\ agentPc = "done" /\ watcher = "closed" /\ Closed(agentDone)
    /\ ~Closed(agentStopChan)

\* C20: a write event handled less than the debounce interval after the
\* latest successful reload, file- or tick-triggered, is discarded: it makes
\* no reload attempt.
C20_EverySuccessStartsDebounce ==
    [][(WriteEventHandled /\ lastSuccess # NoTime
            /\ now - lastSuccess < reloadDebounce)
          => ~FileAttemptMade]_vars

FileLoaded == configFile.format \in {"yaml", "json"}
FileSets(f) == FileLoaded /\ TagOf[f] \in DOMAIN configFile.fields
EnvSet(f) == EnvNameOf[f] \in DOMAIN environ
EnvParse(f) ==
    IF f \in BoolFields THEN ParseBool(environ[EnvNameOf[f]])
    ELSE Atoi(environ[EnvNameOf[f]])

C22_LoopUsesConfiguredIntervals ==
    agentPc = "select" =>
        /\ reloadDebounce * 1000 = featureConfig.DebounceInterval
        /\ tickerInterval = featureConfig.CertWatchInterval
        /\ ExpiryWarning = featureConfig.CertExpiryWarning * 86400

\* C23: with debounce_file_changes off every write event the agent handles
\* makes a reload attempt; with it on, a write event handled less than
\* debounce_interval after a successful file-triggered reload makes none.
C23_DebounceFollowsFlag ==
    /\ [][(WriteEventHandled /\ ~featureConfig.DebounceFileChanges)
            => FileAttemptMade]_vars
    /\ [][(/\ WriteEventHandled /\ featureConfig.DebounceFileChanges
            /\ lastFileAttempt.ok
            /\ (now - lastFileAttempt.at) * 1000 < featureConfig.DebounceInterval)
            => ~FileAttemptMade]_vars

\* C24: with periodic_cert_check off a handled tick reloads nothing: the
\* store, state.Current and state.Previous are as before.
C24_NoTimerReloadWhenOff ==
    [][(TickHandled /\ ~featureConfig.PeriodicCertCheck)
        => /\ store' = store
           /\ state'.Current = state.Current
           /\ state'.Previous = state.Previous]_vars

\* C25: with certificate_watcher off the agent goroutine is never started,
\* agent-done is closed once main has started, the agent-stop channel is never
\* closed, main never waits for the agent, and Update is never called: the
\* bootstrap pair is the only pair published and what every lookup returns,
\* whatever is written to the files.
C25_NoWatcherNoAgent ==
    ~featureConfig.CertificateWatcher =>
        /\ agentPc = "idle" /\ watcher = "none"
        /\ agentStopChan = 0
        /\ mainPc # "waitAgent"
        /\ store # NilCert =>
              /\ agentDone = 1
              /\ published = {store}
              /\ state.Current = store /\ state.Previous = NilCert
              /\ lookup \in {NilCert, store}

C25_Witness ==
    /\ ~featureConfig.CertificateWatcher
    /\ mainPc = "complete" /\ srv.result = "ok" /\ handlerPc = "done"
    /\ lookup = store /\ lookup # NilCert
    /\ \E b \in ValidIds : DiskHolds(b) /\ b # store.chain

\* C27: GetCertificate called on a nil store returns a nil certificate and
\* does not fail.
C27_NilStoreLookupReturnsNil ==
    lookPc = "nilStore" => (~panicked /\ lookup = NilCert)

\* C30: GetCertificate has no side effect and returns a nil error: the step
\* in which a lookup returns leaves the store (and everything but the
\* caller's result) as it was and yields the stored pair, so that after any
\* number of lookups the store holds what New or the latest Update stored.
C30_LookupLeavesStore ==
    /\ [][(lookPc = "called" /\ lookPc' = "idle")
            => /\ store' = store /\ published' = published
               /\ history' = history /\ state' = state
               /\ lookup' = store
               /\ GetCertificateError(store) = NilError]_vars
    /\ [](store = IF history = <<>> THEN state.Current
                  ELSE history[Len(history)])

\* C30 witness: a lookup has returned the pair of an Update and the store
\* still holds that pair
C30_Witness ==
    /\ lookPc = "idle" /\ lookFloor >= 1 /\ history # <<>>
    /\ lookup = history[Len(history)] /\ store = lookup
    /\ lookup # state.Current

\* a step of the agent goroutine inside Run
AgentStep == AgentSetup \/ HandleEvent \/ HandleError \/ HandleTick

\* C29: the State is written by main only when it creates it, before the
\* agent goroutine exists, and from then on only by steps of the agent
\* goroutine; the Store is written only by New and by the agent; and a
\* handshake of the listener reads the Store and leaves the State alone.
C29_StateOwnedByAgent ==
    /\ [][state' # state
            => \/ mainPc = "start" /\ agentPc = "idle"
               \/ agentPc = "select" /\ AgentStep]_vars
    /\ [][store' # store
            => \/ mainPc = "start" /\ agentPc = "idle"
               \/ agentPc = "select" /\ AgentStep]_vars
    /\ [][lookup' # lookup
            => state' = state /\ store' = store
               /\ lookup' = GetCertificate(store)]_vars

\* C29 witness: the agent has reloaded and stamped its State, the listener
\* has looked the reloaded pair up, and the shutdown sequence has run
C29_Witness ==
    /\ state.Previous # NilCert /\ state.LastRun # NoTime
    /\ lookup = store /\ store = state.Current
    /\ handlerPc = "done" /\ mainPc \in {"waitAgent", "complete"}

\* C28: the State reports running from NewState for as long as the agent
\* goroutine is starting or in its loop, signals or not, and reports not
\* running whenever agent-done is closed.
C28_RunningUntilAgentDone ==
    /\ (store # NilCert /\ agentPc \in {"start", "select"}) => IsRunning(running)
    /\ Closed(agentDone) => ~IsRunning(running)

\* a step in which reloadCert ran and its Load succeeded
ReloadSucceeded == lastSuccess' # lastSuccess \/ published' # published
                   \/ state'.Previous # state.Previous

\* C31: a successful reload of pair P first sets state.Previous to the old
\* state.Current, then state.Current to P, then stores P; what is stored is
\* the pair just loaded from the files, the pairs published before are still
\* there unchanged, the old current pair is kept whole as state.Previous,
\* and no step of the agent stores anything but the pair it has just loaded
\* from the files (state.Previous comes back only if the files hold it).
C31_ReloadOrderAndFreshPair ==
    /\ [][(agentPc = "select" /\ ReloadSucceeded)
            => LET P == Load(certFile, keyFile).cert
                   t == reloadCertSteps(store, state, P)
               IN  /\ Load(certFile, keyFile).ok
                   /\ t[1].state.Previous = state.Current
                   /\ t[1].state.Current = state.Current /\ t[1].store = store
                   /\ t[2].state.Previous = state.Current
                   /\ t[2].state.Current = P /\ t[2].store = store
                   /\ t[3].state = t[2].state /\ t[3].store = P
                   /\ store' = P /\ state'.Current = P
                   /\ state'.Previous = state.Current
                   /\ published' = published \cup {P}]_vars
    /\ [][(agentPc = "select" /\ store' # store)
            => /\ Load(certFile, keyFile).ok
               /\ store' = Load(certFile, keyFile).cert]_vars

\* C31 witness: two successful reloads of different pairs: the bootstrap
\* pair is no longer current or previous, and is not what the store holds
C31_Witness ==
    /\ agentPc = "select" /\ Cardinality(published) >= 2
    /\ state.Previous # NilCert /\ state.Previous # state.Current
    /\ store = state.Current /\ store.chain = certFile /\ lastSuccess # NoTime

\* C32: once the agent-stop channel is closed the agent makes no reload
\* attempt and no Update: no file-triggered attempt, no change of the store,
\* of the published pairs or of state.Previous.
C32_NoReloadAfterStop ==
    [][Closed(agentStopChan)
        => /\ ~FileAttemptMade
           /\ store' = store /\ published' = published
           /\ state'.Current = state.Current
           /\ state'.Previous = state.Previous]_vars

\* C33: a write event is discarded only when a reload succeeded less than
\* the debounce interval before it; so a write event handled before any
\* reload has succeeded, however soon after the start, makes an attempt.
C33_DiscardOnlyAfterSuccess ==
    [][(WriteEventHandled /\ ~FileAttemptMade)
          => lastSuccess # NoTime /\ now - lastSuccess < reloadDebounce]_vars

\* C34: a failed file-triggered reload leaves lastReloadTime as it was, and
\* while the latest file-triggered attempt is a failed one every write event
\* the agent handles makes a new attempt.
C34_FailureStartsNoWindow ==
    /\ [][(FileAttemptMade /\ ~lastFileAttempt'.ok)
            => lastReloadTime' = lastReloadTime]_vars
    /\ [][(WriteEventHandled /\ lastFileAttempt.at # NoTime /\ ~lastFileAttempt.ok)
            => FileAttemptMade]_vars

\* C34 witness: a file-triggered attempt has failed this very second, it
\* has left lastReloadTime at the start time, and the next write event,
\* for files that now load, is waiting in front of the agent
C34_Witness ==
    /\ lastFileAttempt.at = now /\ ~lastFileAttempt.ok
    /\ lastSuccess = NoTime /\ lastReloadTime = 0 /\ now >= reloadDebounce
    /\ agentPc = "select" /\ events # <<>> /\ Head(events) = "Write"
    /\ \E b \in ValidIds : DiskHolds(b) /\ b # store.chain

\* C35: a handled tick that finds the expiry condition of agent.go:122 true
\* reloads whenever the files load, also inside the debounce window of a
\* file-triggered reload that has just succeeded.
C35_TickNotDebounced ==
    [][(TickHandled /\ NearExpiry(state.Current, now)
            /\ Load(certFile, keyFile).ok)
          => /\ state'.Previous = state.Current
             /\ state'.Current = Load(certFile, keyFile).cert
             /\ store' = Load(certFile, keyFile).cert
             /\ lastSuccess' = now
             /\ lastReloadTime' = lastReloadTime]_vars

\* C35 witness: a tick-triggered reload succeeded one second after a
\* successful file-triggered reload, inside its debounce window
C35_Witness ==
    /\ lastFileAttempt.ok /\ now - lastFileAttempt.at = 1
    /\ lastReloadTime = lastFileAttempt.at
    /\ lastSuccess = now /\ state.LastRun = now
    /\ state.Previous.chain # state.Current.chain /\ store = state.Current

\* C36: handling a file event that is not a Write makes no reload attempt,
\* leaves the store, state.Current, state.Previous and lastReloadTime as they
\* were, and leaves the agent in its loop.
C36_NonWriteEventIgnored ==
    [][(HandleEvent /\ events # <<>> /\ Head(events) # "Write")
          => /\ ~FileAttemptMade
             /\ store' = store /\ published' = published
             /\ state'.Current = state.Current
             /\ state'.Previous = state.Previous
             /\ lastReloadTime' = lastReloadTime
             /\ agentPc' = "select" /\ watcher' = watcher]_vars

\* C36 witness: outside every debounce window, with a file deleted, the
\* Remove event is waiting in front of the agent
C36_Witness ==
    /\ agentPc = "select" /\ events # <<>> /\ Head(events) = "Remove"
    /\ now - lastReloadTime >= reloadDebounce
    /\ (certFile = Missing \/ keyFile = Missing)
    /\ store = state.Current /\ store # NilCert

\* C37: whenever the agent waits in its select the store holds state.Current;
\* when main has started both are the bootstrap pair; and after that the
\* store changes only in steps of the agent.
C37_StoreIsStateCurrent ==
    /\ [](agentPc = "select" => GetCertificate(store) = state.Current)
    /\ []((mainPc = "listen" /\ agentPc \in {"idle", "start"})
            => /\ GetCertificate(store) = state.Current
               /\ state.Previous = NilCert /\ published = {store})
    /\ [][(mainPc # "start" /\ store' # store)
            => agentPc = "select" /\ (HandleEvent \/ HandleTick)]_vars

\* C37 witness: after a file-triggered and a later tick-triggered reload the
\* agent is back in its select with the store holding state.Current
C37_Witness ==
    /\ agentPc = "select" /\ events = <<>> /\ ~tick
    /\ lastFileAttempt.ok /\ lastSuccess > lastFileAttempt.at
    /\ GetCertificate(store) = state.Current /\ state.Previous # NilCert
    /\ published # {store}

\* C38 as claimed: whenever main is in its timed wait for agent-done the
\* agent-stop channel is closed.
C38_StopClosedBeforeAgentWait ==
    mainPc = "waitAgent" => Closed(agentStopChan)

\* C38 amended: with graceful_shutdown on, whenever main is in its timed
\* wait for agent-done the agent-stop channel is closed; with it off the
\* channel is never closed.
C38_StopClosedBeforeAgentWaitIfGraceful ==
    /\ (mainPc = "waitAgent" /\ featureConfig.GracefulShutdown)
          => Closed(agentStopChan)
    /\ ~featureConfig.GracefulShutdown => ~Closed(agentStopChan)

\* C38 witness: after a signal main waits for an agent that is still in its
\* loop, with the stop channel closed
C38_Witness ==
    /\ mainPc = "waitAgent" /\ featureConfig.GracefulShutdown
    /\ Closed(agentStopChan) /\ agentPc = "select" /\ sigSent >= 1
    /\ handlerPc = "done" /\ ~warned

\* C39: once main has stored the bootstrap pair the store never holds the
\* nil pair, no nil pair is ever published, and every lookup returns a pair.
C39_StoreNeverNil ==
    /\ [](mainPc \notin {"start", "fatal"}
            => GetCertificate(store) # NilCert /\ NilCert \notin published)
    /\ [][lookup' # lookup => lookup' # NilCert]_vars

\* C39 witness: a reload attempt has failed after a successful one, and the
\* lookup made since returned the last good pair
C39_Witness ==
    /\ lastFileAttempt.at # NoTime /\ ~lastFileAttempt.ok
    /\ lastSuccess # NoTime /\ lastFileAttempt.at > lastSuccess
    /\ ~Load(certFile, keyFile).ok
    /\ lookup = GetCertificate(store) /\ lookup # NilCert
    /\ Cardinality(published) >= 2

====
